---- MODULE Spec2Model ----
(***************************************************************************)
(* A model of the transaction bot of src/bot.py: the five-step             *)
(* conversation (FAMILY, CATEGORY, AMOUNT, PERIOD, CONTACT), its           *)
(* validation rules, the per-user draft (context.user_data), the           *)
(* transactions table and the notification sent at commit.                 *)
(*                                                                         *)
(* Texts are sequences of one-character strings, so that strip(),          *)
(* replace(), startswith(), float() and strptime() are modelled by what    *)
(* they do to the characters.                                              *)
(***************************************************************************)
EXTENDS Integers, Sequences, FiniteSets, TLC

VARIABLES
    allowed_group_id,  \* self.allowed_group_id: Absent or Some(configured text)
    conversations,     \* the ConversationHandler's state per (chat, user) key
    user_data,         \* context.user_data: one dict per USER (not per chat)
    rows,              \* the transactions table, in insertion (id) order
    accepted,          \* per key: the values this conversation's steps accepted
    last               \* the last update handled: what it was, what the store
                       \* and the Notifier answered, what the handler produced

vars == <<allowed_group_id, conversations, user_data, rows, accepted, last>>

\* An optional value (a dict key that may be missing, an unset setting, a
\* handler that returned nothing): Absent, or Some(v).
Absent == <<>>

Some(v) == <<v>>

Val(o) == o[1]

-----------------------------------------------------------------------------
(* Conversation states and the fixed choice sets.                          *)

FAMILY == 0
CATEGORY == 1
AMOUNT == 2
PERIOD == 3
CONTACT == 4
END == -1

OpenStates == {FAMILY, CATEGORY, AMOUNT, PERIOD, CONTACT}

FAMILIES ==
    <<"Famiglia Rossi", "Famiglia Bianchi", "Famiglia Verdi",
      "Famiglia Neri", "Famiglia Blu">>

CATEGORIES == <<"Quota Mensile", "Quota Iscrizione", "Altro">>

Range(s) == {s[i] : i \in 1..Len(s)}

-----------------------------------------------------------------------------
(* Characters and the str methods the handlers use.                        *)

DigitChars == <<"0", "1", "2", "3", "4", "5", "6", "7", "8", "9">>

IsDigit(ch) == ch \in Range(DigitChars)

DigitVal(ch) == (CHOOSE i \in 1..Len(DigitChars) : DigitChars[i] = ch) - 1

Whitespace == {" ", "\t", "\n"}

UpperChars ==
    <<"A", "B", "C", "D", "E", "F", "G", "H", "I", "J", "K", "L", "M",
      "N", "O", "P", "Q", "R", "S", "T", "U", "V", "W", "X", "Y", "Z">>

LowerChars ==
    <<"a", "b", "c", "d", "e", "f", "g", "h", "i", "j", "k", "l", "m",
      "n", "o", "p", "q", "r", "s", "t", "u", "v", "w", "x", "y", "z">>

Lower(ch) ==
    IF ch \in Range(UpperChars)
    THEN LowerChars[CHOOSE i \in 1..Len(UpperChars) : UpperChars[i] = ch]
    ELSE ch

LowerText(s) == [i \in 1..Len(s) |-> Lower(s[i])]

RECURSIVE LStrip(_)
LStrip(s) ==
    IF s # <<>> /\ Head(s) \in Whitespace THEN LStrip(Tail(s)) ELSE s

RECURSIVE RStrip(_)
RStrip(s) ==
    IF s # <<>> /\ s[Len(s)] \in Whitespace
    THEN RStrip(SubSeq(s, 1, Len(s) - 1))
    ELSE s

\* str.strip()
Strip(s) == RStrip(LStrip(s))

\* str.replace(old, new) for one-character old and new
ReplaceChar(s, old, new) ==
    [i \in 1..Len(s) |-> IF s[i] = old THEN new ELSE s[i]]

\* str.startswith(ch)
StartsWith(s, ch) == s # <<>> /\ Head(s) = ch

\* index of the first element of s in the set S, 0 when there is none
FirstIn(s, S) ==
    IF \E i \in 1..Len(s) : s[i] \in S
    THEN CHOOSE i \in 1..Len(s) : s[i] \in S /\ \A j \in 1..(i - 1) : s[j] \notin S
    ELSE 0

RECURSIVE ToNat(_)
ToNat(ds) ==
    IF ds = <<>> THEN 0
    ELSE 10 * ToNat(SubSeq(ds, 1, Len(ds) - 1)) + DigitVal(ds[Len(ds)])

RECURSIVE NatToText(_)
NatToText(n) ==
    IF n < 10 THEN <<DigitChars[n + 1]>>
    ELSE NatToText(n \div 10) \o <<DigitChars[(n % 10) + 1]>>

\* str(int)
IntToText(n) == IF n < 0 THEN <<"-">> \o NatToText(0 - n) ELSE NatToText(n)

-----------------------------------------------------------------------------
(* float(text): Python's grammar for a float literal, and the value as an  *)
(* exact decimal m * 10^e rounded to the range of an IEEE-754 double.      *)
(* Finite values keep m without trailing zeros, so that equal numbers are  *)
(* equal records ("25.50" and "25.5" are both 255 * 10^-1).  The binary    *)
(* rounding of the mantissa inside the range is not modelled.              *)

FloatError == [kind |-> "ValueError", neg |-> FALSE, m |-> 0, e |-> 0]

FloatNaN == [kind |-> "nan", neg |-> FALSE, m |-> 0, e |-> 0]

FloatInf(neg) == [kind |-> "inf", neg |-> neg, m |-> 0, e |-> 0]

RECURSIVE FloatFinite(_, _, _)
FloatFinite(neg, m, e) ==
    IF m = 0 THEN [kind |-> "finite", neg |-> neg, m |-> 0, e |-> 0]
    ELSE IF m % 10 = 0 THEN FloatFinite(neg, m \div 10, e + 1)
    ELSE [kind |-> "finite", neg |-> neg, m |-> m, e |-> e]

\* digitpart ::= digit (["_"] digit)*
IsDigitPart(s) ==
    /\ s # <<>>
    /\ IsDigit(s[1]) /\ IsDigit(s[Len(s)])
    /\ \A i \in 1..Len(s) : IsDigit(s[i]) \/ s[i] = "_"
    /\ \A i \in 1..(Len(s) - 1) : ~(s[i] = "_" /\ s[i + 1] = "_")

DigitsOf(s) == SelectSeq(s, IsDigit)

\* number ::= [digitpart] "." digitpart | digitpart ["."]
IsNumber(s) ==
    LET dot == FirstIn(s, {"."})
        ip == SubSeq(s, 1, dot - 1)
        fp == SubSeq(s, dot + 1, Len(s))
    IN  IF dot = 0 THEN IsDigitPart(s)
        ELSE /\ ip = <<>> \/ IsDigitPart(ip)
             /\ fp = <<>> \/ IsDigitPart(fp)
             /\ ~(ip = <<>> /\ fp = <<>>)

\* the part after "e": ["+" | "-"] digitpart
IsExponent(s) ==
    /\ s # <<>>
    /\ IsDigitPart(IF Head(s) \in {"+", "-"} THEN Tail(s) ELSE s)

ExponentOf(s) ==
    IF Head(s) = "-" THEN 0 - ToNat(DigitsOf(Tail(s)))
    ELSE ToNat(DigitsOf(s))

\* the first four significant digits of m > 0
Lead4(m) ==
    LET ds == NatToText(m)
    IN  ToNat([i \in 1..4 |-> IF i <= Len(ds) THEN ds[i] ELSE "0"])

\* round m * 10^e (m > 0) to a double: beyond about 1.797e308 it is inf,
\* at or below about 2.47e-324 it is 0.0
RoundToDouble(neg, m, e) ==
    LET v == FloatFinite(neg, m, e)
        adj == Len(NatToText(v.m)) + v.e - 1
    IN  IF v.m = 0 THEN v
        ELSE IF adj > 308 \/ (adj = 308 /\ Lead4(v.m) >= 1798) THEN FloatInf(neg)
        ELSE IF adj < -324 \/ (adj = -324 /\ Lead4(v.m) <= 2470)
             THEN FloatFinite(neg, 0, 0)
        ELSE v

ParseFloat(text) ==
    LET s == Strip(text)
        neg == StartsWith(s, "-")
        body == IF s # <<>> /\ Head(s) \in {"+", "-"} THEN Tail(s) ELSE s
        ePos == FirstIn(body, {"e", "E"})
        mant == IF ePos = 0 THEN body ELSE SubSeq(body, 1, ePos - 1)
        expo == SubSeq(body, ePos + 1, Len(body))
        dot == FirstIn(mant, {"."})
        fracDigits == IF dot = 0 THEN 0
                      ELSE Len(DigitsOf(SubSeq(mant, dot + 1, Len(mant))))
    IN  IF LowerText(body) \in {<<"i", "n", "f">>,
                                <<"i", "n", "f", "i", "n", "i", "t", "y">>}
        THEN FloatInf(neg)
        ELSE IF LowerText(body) = <<"n", "a", "n">> THEN FloatNaN
        ELSE IF ~IsNumber(mant) THEN FloatError
        ELSE IF ePos # 0 /\ ~IsExponent(expo) THEN FloatError
        ELSE RoundToDouble(neg, ToNat(DigitsOf(mant)),
                           (IF ePos = 0 THEN 0 ELSE ExponentOf(expo)) - fracDigits)

\* amount <= 0 on floats: false for nan
LeqZero(v) ==
    \/ v.kind = "finite" /\ (v.m = 0 \/ v.neg)
    \/ v.kind = "inf" /\ v.neg

-----------------------------------------------------------------------------
(* datetime.strptime(text, '%Y-%m-%d'): the regular expression the format  *)
(* compiles to, (\d\d\d\d)-(1[0-2]|0[1-9]|[1-9])-(3[0-1]|[1-2]\d|0[1-9]|   *)
(* [1-9]| [1-9]), matched against the whole text, then the calendar check  *)
(* of the datetime constructor.                                            *)

RECURSIVE Split(_, _)
Split(s, ch) ==
    LET i == FirstIn(s, {ch})
    IN  IF i = 0 THEN <<s>>
        ELSE <<SubSeq(s, 1, i - 1)>> \o Split(SubSeq(s, i + 1, Len(s)), ch)

MatchYear(s) == Len(s) = 4 /\ \A i \in 1..4 : IsDigit(s[i])

MatchMonth(s) ==
    \/ Len(s) = 2 /\ s[1] = "1" /\ s[2] \in {"0", "1", "2"}
    \/ Len(s) = 2 /\ s[1] = "0" /\ IsDigit(s[2]) /\ s[2] # "0"
    \/ Len(s) = 1 /\ IsDigit(s[1]) /\ s[1] # "0"

MatchDay(s) ==
    \/ Len(s) = 2 /\ s[1] = "3" /\ s[2] \in {"0", "1"}
    \/ Len(s) = 2 /\ s[1] \in {"1", "2"} /\ IsDigit(s[2])
    \/ Len(s) = 2 /\ s[1] = "0" /\ IsDigit(s[2]) /\ s[2] # "0"
    \/ Len(s) = 1 /\ IsDigit(s[1]) /\ s[1] # "0"
    \/ Len(s) = 2 /\ s[1] = " " /\ IsDigit(s[2]) /\ s[2] # "0"

IsLeap(y) == y % 4 = 0 /\ (y % 100 # 0 \/ y % 400 = 0)

DaysInMonth(y, m) ==
    IF m = 2 THEN (IF IsLeap(y) THEN 29 ELSE 28)
    ELSE IF m \in {4, 6, 9, 11} THEN 30
    ELSE 31

\* TRUE iff strptime returns a date, FALSE iff it raises ValueError
StrptimeOk(text) ==
    LET parts == Split(text, "-")
    IN  /\ Len(parts) = 3
        /\ MatchYear(parts[1]) /\ MatchMonth(parts[2]) /\ MatchDay(parts[3])
        /\ LET y == ToNat(parts[1])
               m == ToNat(parts[2])
               d == ToNat(DigitsOf(parts[3]))
           IN  y >= 1 /\ d <= DaysInMonth(y, m)

-----------------------------------------------------------------------------
(* Contact normalization of get_contact.                                   *)

\* mutation: the "@" is prepended without looking at the text
NormalizeContact_always_prefix(text) == <<"@">> \o Strip(text)

NormalizeContact(text) ==
    LET contact == Strip(text)
    IN  IF ~StartsWith(contact, "@") THEN <<"@">> \o contact ELSE contact

-----------------------------------------------------------------------------
(* Updates, drafts, rows and what a handler run produces.                  *)

\* An update: a command, a button press (callback query whose data is
\* prefix + label) or a text message that is no command.
Command(u, c, name) == [kind |-> name, user |-> u, chat |-> c, data |-> <<>>]

Button(u, c, prefix, label) ==
    [kind |-> "button", user |-> u, chat |-> c, data |-> <<prefix, label>>]

Text(u, c, t) == [kind |-> "text", user |-> u, chat |-> c, data |-> t]

\* the ConversationHandler's key with per_chat and per_user (the defaults)
Key(upd) == <<upd.chat, upd.user>>

\* context.user_data after clear(): no key present
EmptyDraft ==
    [family |-> Absent, category |-> Absent, amount |-> Absent,
     period |-> Absent]

Reply(msg) == [msg |-> msg, contact |-> <<>>]

ReplyNaming(msg, contact) == [msg |-> msg, contact |-> contact]

\* A handler that returned: the next state, the draft and table it leaves,
\* the replies sent to the update's chat, the notifications attempted, and
\* the order of what it did to the outside ("insert", "notify", "reply",
\* "clear"); unless said otherwise, that is one "reply" per reply.
Returned(ret, ud, rws, replies, notified) ==
    [ret |-> ret, data |-> ud, rows |-> rws, replies |-> replies,
     notified |-> notified, raised |-> "no",
     effects |-> [i \in 1..Len(replies) |-> "reply"]]

\* A handler that raised: the application logs the exception, the
\* conversation keeps its state, what was written before stays written.
Raised(exc, ud, rws, replies) ==
    [ret |-> Absent, data |-> ud, rows |-> rws, replies |-> replies,
     notified |-> <<>>, raised |-> exc,
     effects |-> [i \in 1..Len(replies) |-> "reply"]]

\* the outcome r of a handler that did `effects`, in that order
Effects(r, effects) == [r EXCEPT !.effects = effects]

-----------------------------------------------------------------------------
(* The handlers of TransactionBot, as functions of the update and of the   *)
(* state they read.                                                        *)

\* mutation: the guard lets every chat in
is_authorized_every_chat(chat, allowed) == TRUE

is_authorized(chat, allowed) ==
    IF allowed = Absent \/ Val(allowed) = <<>> THEN TRUE
    ELSE IntToText(chat) = Val(allowed)

\* mutation: start does not ask the guard
start_unguarded(upd, allowed, ud, rws) ==
    Returned(Some(FAMILY), ud, rws, <<Reply("select_family")>>, <<>>)

start(upd, allowed, ud, rws) ==
    IF ~is_authorized(upd.chat, allowed)
    THEN Returned(Some(END), ud, rws, <<Reply("unauthorized")>>, <<>>)
    ELSE Returned(Some(FAMILY), ud, rws, <<Reply("select_family")>>, <<>>)

\* query.data.replace("family_", ""): the labels do not contain "family_"
select_family(upd, ud, rws) ==
    LET family == upd.data[2]
        ud1 == [ud EXCEPT !.family = Some(family)]
    IN  Returned(Some(CATEGORY), ud1, rws, <<Reply("select_category")>>, <<>>)

select_category(upd, ud, rws) ==
    LET category == upd.data[2]
        ud1 == [ud EXCEPT !.category = Some(category)]
    IN  IF ud1.family = Absent THEN Raised("KeyError", ud1, rws, <<>>)
        ELSE Returned(Some(AMOUNT), ud1, rws, <<Reply("ask_amount")>>, <<>>)

\* mutation: an accepted amount moves the conversation to CONTACT
get_amount_skips_period(upd, ud, rws) ==
    LET amount == ParseFloat(ReplaceChar(upd.data, ",", "."))
        ud1 == [ud EXCEPT !.amount = Some(amount)]
    IN  IF amount.kind = "ValueError" \/ LeqZero(amount)
        THEN Returned(Some(AMOUNT), ud, rws, <<Reply("invalid_amount")>>, <<>>)
        ELSE IF ud1.family = Absent \/ ud1.category = Absent
        THEN Raised("KeyError", ud1, rws, <<>>)
        ELSE Returned(Some(CONTACT), ud1, rws, <<Reply("ask_period")>>, <<>>)

get_amount(upd, ud, rws) ==
    LET amount == ParseFloat(ReplaceChar(upd.data, ",", "."))
        ud1 == [ud EXCEPT !.amount = Some(amount)]
    IN  IF amount.kind = "ValueError" \/ LeqZero(amount)
        THEN Returned(Some(AMOUNT), ud, rws, <<Reply("invalid_amount")>>, <<>>)
        ELSE IF ud1.family = Absent \/ ud1.category = Absent
        THEN Raised("KeyError", ud1, rws, <<>>)
        ELSE Returned(Some(PERIOD), ud1, rws, <<Reply("ask_period")>>, <<>>)

get_period(upd, ud, rws) ==
    LET period == Strip(upd.data)
        ud1 == [ud EXCEPT !.period = Some(period)]
    IN  IF ~StrptimeOk(period)
        THEN Returned(Some(PERIOD), ud, rws, <<Reply("invalid_period")>>, <<>>)
        ELSE IF ud1.family = Absent \/ ud1.category = Absent \/ ud1.amount = Absent
        THEN Raised("KeyError", ud1, rws, <<>>)
        ELSE Returned(Some(CONTACT), ud1, rws, <<Reply("ask_contact")>>, <<>>)

\* update.effective_user.username: user 1 has set one, user 2 has not
UsernameOf(u) == IF u = 1 THEN Some("rossi") ELSE Absent

\* mutation: a missing key is read as None and the table has no NOT NULL
\* constraint, so the row is inserted with the field empty
save_transaction_missing_as_null(upd, ud, contact, rws, storage_ok) ==
    IF ~storage_ok
    THEN Raised("sqlite3.Error", ud, rws, <<>>)
    ELSE Effects(
             Returned(Absent, ud,
                      Append(rws, [family |-> IF ud.family = Absent THEN "NULL"
                                              ELSE Val(ud.family),
                                   category |-> IF ud.category = Absent THEN "NULL"
                                                ELSE Val(ud.category),
                                   amount |-> IF ud.amount = Absent THEN FloatNaN
                                              ELSE Val(ud.amount),
                                   period |-> IF ud.period = Absent THEN <<>>
                                              ELSE Val(ud.period),
                                   contact |-> contact, user_id |-> upd.user,
                                   username |-> "N/A"]),
                      <<>>, <<>>),
             <<"insert">>)

\* The INSERT of save_transaction.  The tuple of values is built first (a
\* missing key raises KeyError before anything is executed); the statement
\* fails as a whole when the store is unavailable, and when amount is nan,
\* which sqlite binds as NULL into a NOT NULL column.
save_transaction(upd, ud, contact, rws, storage_ok) ==
    IF \E f \in DOMAIN ud : ud[f] = Absent
    THEN Raised("KeyError", ud, rws, <<>>)
    ELSE IF ~storage_ok \/ Val(ud.amount).kind = "nan"
    THEN Raised("sqlite3.Error", ud, rws, <<>>)
    ELSE Effects(
             Returned(Absent, ud,
                      Append(rws, [family |-> Val(ud.family),
                                   category |-> Val(ud.category),
                                   amount |-> Val(ud.amount),
                                   period |-> Val(ud.period),
                                   contact |-> contact, user_id |-> upd.user,
                                   username |-> IF UsernameOf(upd.user) = Absent
                                                THEN "N/A"
                                                ELSE Val(UsernameOf(upd.user))]),
                      <<>>, <<>>),
             <<"insert">>)

\* mutation: the failure of the Notifier is not caught
send_notification_uncaught(upd, ud, contact, rws, notify_ok) ==
    IF notify_ok
    THEN Effects(Returned(Absent, ud, rws, <<>>, <<contact>>), <<"notify">>)
    ELSE Effects(Raised("TelegramError", ud, rws, <<>>), <<"notify">>)

\* One attempt to send to the contact; a failure is caught and reported
\* to the submitting user.
send_notification(upd, ud, contact, rws, notify_ok) ==
    IF notify_ok
    THEN Effects(Returned(Absent, ud, rws, <<>>, <<contact>>), <<"notify">>)
    ELSE Effects(Returned(Absent, ud, rws,
                          <<ReplyNaming("notification_failed", contact)>>,
                          <<contact>>),
                 <<"notify", "reply">>)

\* mutation: the notification is sent before the row is saved
get_contact_notifies_first(upd, ud, rws, storage_ok, notify_ok) ==
    LET contact == NormalizeContact(upd.data)
        sent == send_notification(upd, ud, contact, rws, notify_ok)
        saved == save_transaction(upd, ud, contact, rws, storage_ok)
    IN  IF saved.raised # "no"
        THEN Effects([saved EXCEPT !.replies = sent.replies,
                                   !.notified = sent.notified],
                     sent.effects)
        ELSE Effects(
                 Returned(Some(END), EmptyDraft, saved.rows,
                          sent.replies \o <<ReplyNaming("saved", contact)>>,
                          sent.notified),
                 sent.effects \o saved.effects \o <<"reply", "clear">>)

\* mutation: the commit ends the conversation without clearing the draft
get_contact_keeps_draft(upd, ud, rws, storage_ok, notify_ok) ==
    LET contact == NormalizeContact(upd.data)
        saved == save_transaction(upd, ud, contact, rws, storage_ok)
        sent == send_notification(upd, ud, contact, saved.rows, notify_ok)
    IN  IF saved.raised # "no" THEN saved
        ELSE IF sent.raised # "no"
        THEN Effects(sent, saved.effects \o sent.effects)
        ELSE Effects(
                 Returned(Some(END), ud, saved.rows,
                          sent.replies \o <<ReplyNaming("saved", contact)>>,
                          sent.notified),
                 saved.effects \o sent.effects \o <<"reply">>)

get_contact(upd, ud, rws, storage_ok, notify_ok) ==
    LET contact == NormalizeContact(upd.data)
        saved == save_transaction(upd, ud, contact, rws, storage_ok)
        sent == send_notification(upd, ud, contact, saved.rows, notify_ok)
    IN  IF saved.raised # "no" THEN saved
        ELSE IF sent.raised # "no"
        THEN Effects(sent, saved.effects \o sent.effects)
        ELSE Effects(
                 Returned(Some(END), EmptyDraft, saved.rows,
                          sent.replies \o <<ReplyNaming("saved", contact)>>,
                          sent.notified),
                 saved.effects \o sent.effects \o <<"reply", "clear">>)

\* mutation: cancel forgets to clear the draft
cancel_keeps_draft(upd, ud, rws) ==
    Returned(Some(END), ud, rws, <<Reply("cancelled")>>, <<>>)

cancel(upd, ud, rws) ==
    Effects(Returned(Some(END), EmptyDraft, rws, <<Reply("cancelled")>>, <<>>),
            <<"reply", "clear">>)

help_command(upd, allowed, ud, rws) ==
    IF ~is_authorized(upd.chat, allowed)
    THEN Returned(Absent, ud, rws, <<Reply("unauthorized")>>, <<>>)
    ELSE Returned(Absent, ud, rws, <<Reply("help")>>, <<>>)

-----------------------------------------------------------------------------
(* The dispatcher built in run(): the ConversationHandler (entry point     *)
(* start; one handler per state; fallback cancel), then the help command.  *)

\* ConversationHandler(...) is built without allow_reentry, which is False
\* by default: entry points are tried only while the key has no conversation
\* mutation: the handler is built with allow_reentry=True
allow_reentry_enabled == TRUE

allow_reentry == FALSE

\* mutation: the CallbackQueryHandlers are built without a pattern
StateHandler_no_pattern(state, upd) ==
    IF state = FAMILY /\ upd.kind = "button" THEN "select_family"
    ELSE IF state = CATEGORY /\ upd.kind = "button" THEN "select_category"
    ELSE IF state = AMOUNT /\ upd.kind = "text" THEN "get_amount"
    ELSE IF state = PERIOD /\ upd.kind = "text" THEN "get_period"
    ELSE IF state = CONTACT /\ upd.kind = "text" THEN "get_contact"
    ELSE "none"

StateHandler(state, upd) ==
    IF state = FAMILY /\ upd.kind = "button" /\ upd.data[1] = "family_"
    THEN "select_family"
    ELSE IF state = CATEGORY /\ upd.kind = "button" /\ upd.data[1] = "category_"
    THEN "select_category"
    ELSE IF state = AMOUNT /\ upd.kind = "text" THEN "get_amount"
    ELSE IF state = PERIOD /\ upd.kind = "text" THEN "get_period"
    ELSE IF state = CONTACT /\ upd.kind = "text" THEN "get_contact"
    ELSE "none"

\* the handler an update is given to, "none" when no handler takes it
Route(state, upd) ==
    IF (state = END \/ allow_reentry) /\ upd.kind = "start" THEN "start"
    ELSE IF state # END /\ StateHandler(state, upd) # "none"
    THEN StateHandler(state, upd)
    ELSE IF state # END /\ upd.kind = "cancel" THEN "cancel"
    ELSE IF upd.kind = "help" THEN "help_command"
    ELSE "none"

-----------------------------------------------------------------------------
(* The inputs.                                                             *)

Users == {1, 2}

Chats == {-5, 7}

Keys == Chats \X Users

\* ALLOWED_GROUP_ID: not set, set to the empty text, set to "-5" (the text
\* of chat -5), set to "-05" (the text of no chat)
Configs ==
    {Absent, Some(<<>>), Some(<<"-", "5">>), Some(<<"-", "0", "5">>)}

\* the table is capped at MaxRows rows
MaxRows == 1

T_25_50 == <<"2", "5", ",", "5", "0">>

T_2024_01_15 == <<"2", "0", "2", "4", "-", "0", "1", "-", "1", "5">>

T_mario == <<"m", "a", "r", "i", "o">>

Commands(U, C) ==
    {Command(u, c, n) : u \in U, c \in C, n \in {"start", "cancel", "help"}}

Buttons(U, C, F, G) ==
    {Button(u, c, "family_", f) : u \in U, c \in C, f \in F}
    \cup {Button(u, c, "category_", g) : u \in U, c \in C, g \in G}

Texts(U, C, T) == {Text(u, c, t) : u \in U, c \in C, t \in T}

\* Spec: user 1 writing in both chats; two of the families, one category,
\* one text that is an amount and one that is a date
Updates ==
    Commands({1}, Chats)
    \cup Buttons({1}, Chats, {FAMILIES[1], FAMILIES[2]}, {CATEGORIES[1]})
    \cup Texts({1}, Chats, {T_25_50, T_2024_01_15})

\* SpecInput: the texts user 2 sends at the AMOUNT, PERIOD and CONTACT steps
AmountTexts ==
    { T_25_50,
      <<"2", "5", ".", "5", "0">>,
      <<"-", "5">>,
      <<"0">>,
      <<"0", ",", "0">>,
      <<"a", "b", "c">>,
      <<"n", "a", "n">>,
      <<"i", "n", "f">>,
      <<"1", "e", "-", "4", "0", "0">>,
      <<" ", ".", "5", " ">>,
      <<"1", ",", "0", "0", "0", ".", "5">> }

PeriodTexts ==
    { T_2024_01_15,
      <<"2", "0", "2", "4", "-", "1", "-", "5">>,
      <<"2", "0", "2", "4", "-", "0", "1", "-", " ", "5">>,
      <<" ", "2", "0", "2", "4", "-", "0", "2", "-", "2", "9", " ">>,
      <<"2", "0", "2", "3", "-", "0", "2", "-", "2", "9">>,
      <<"2", "0", "2", "4", "-", "0", "2", "-", "3", "0">>,
      <<"2", "0", "2", "4", "-", "1", "3", "-", "0", "1">>,
      <<"0", "0", "0", "0", "-", "0", "1", "-", "0", "1">>,
      <<"1", "5", "/", "0", "1", "/", "2", "0", "2", "4">>,
      <<"2", "4", "-", "0", "1", "-", "1", "5">>,
      T_mario }

ContactTexts ==
    { T_mario,
      <<"@", "m", "a", "r", "i", "o">>,
      <<" ", "m", "a", "r", "i", "o">>,
      <<"@", "m", "a", "r", "i", "o", " ">>,
      <<"@", "@", "m">>,
      <<"@">> }

-----------------------------------------------------------------------------
(* The state machine.                                                      *)

NoUpdate ==
    [kind |-> "none", user |-> 0, chat |-> 0, data |-> <<>>, handler |-> "none",
     from |-> END, storage_ok |-> TRUE, notify_ok |-> TRUE,
     replies |-> <<>>, notified |-> <<>>, raised |-> "no", effects |-> <<>>]

InitWith(configs) ==
    /\ allowed_group_id \in configs
    /\ conversations = [k \in Keys |-> END]
    /\ user_data = [u \in Users |-> EmptyDraft]
    /\ rows = <<>>
    /\ accepted = [k \in Keys |-> EmptyDraft]
    /\ last = NoUpdate

\* Spec: no allowed chat, or chat -5 allowed
Init == InitWith({Absent, Some(<<"-", "5">>)})

\* the values the conversation of the update has accepted, once the handler
\* has returned r
Accepting(upd, handler, r) ==
    LET acc == accepted[Key(upd)]
    IN  IF r.ret = Absent THEN acc
        ELSE IF Val(r.ret) = END \/ handler = "start" THEN EmptyDraft
        ELSE IF Val(r.ret) = CATEGORY THEN [acc EXCEPT !.family = r.data.family]
        ELSE IF handler = "select_category"
        THEN [acc EXCEPT !.category = r.data.category]
        ELSE IF Val(r.ret) = PERIOD THEN [acc EXCEPT !.amount = r.data.amount]
        ELSE IF Val(r.ret) = CONTACT THEN [acc EXCEPT !.period = r.data.period]
        ELSE acc

\* One update handled to completion by `handler` with outcome r: the
\* conversation of the update's key takes the returned state, the user's
\* draft and the table are as the handler left them.
Deliver(upd, handler, r, storage_ok, notify_ok) ==
    /\ conversations' =
           IF r.ret = Absent THEN conversations
           ELSE [conversations EXCEPT ![Key(upd)] = Val(r.ret)]
    /\ user_data' = [user_data EXCEPT ![upd.user] = r.data]
    /\ rows' = r.rows
    /\ accepted' = [accepted EXCEPT ![Key(upd)] = Accepting(upd, handler, r)]
    /\ last' = [kind |-> upd.kind, user |-> upd.user, chat |-> upd.chat,
                data |-> upd.data, handler |-> handler,
                from |-> conversations[Key(upd)],
                storage_ok |-> storage_ok, notify_ok |-> notify_ok,
                replies |-> r.replies,
                notified |-> r.notified, raised |-> r.raised,
                effects |-> r.effects]
    /\ UNCHANGED allowed_group_id

Routed(upd, handler) == Route(conversations[Key(upd)], upd) = handler

Start(upd) ==
    /\ Routed(upd, "start")
    /\ Deliver(upd, "start",
               start(upd, allowed_group_id, user_data[upd.user], rows),
               TRUE, TRUE)

SelectFamily(upd) ==
    /\ Routed(upd, "select_family")
    /\ Deliver(upd, "select_family",
               select_family(upd, user_data[upd.user], rows), TRUE, TRUE)

SelectCategory(upd) ==
    /\ Routed(upd, "select_category")
    /\ Deliver(upd, "select_category",
               select_category(upd, user_data[upd.user], rows), TRUE, TRUE)

GetAmount(upd) ==
    /\ Routed(upd, "get_amount")
    /\ Deliver(upd, "get_amount", get_amount(upd, user_data[upd.user], rows),
               TRUE, TRUE)

GetPeriod(upd) ==
    /\ Routed(upd, "get_period")
    /\ Deliver(upd, "get_period", get_period(upd, user_data[upd.user], rows),
               TRUE, TRUE)

GetContact(upd, storage_ok, notify_ok) ==
    /\ Routed(upd, "get_contact")
    /\ Len(rows) < MaxRows
    /\ Deliver(upd, "get_contact",
               get_contact(upd, user_data[upd.user], rows, storage_ok, notify_ok),
               storage_ok, notify_ok)

Cancel(upd) ==
    /\ Routed(upd, "cancel")
    /\ Deliver(upd, "cancel", cancel(upd, user_data[upd.user], rows),
               TRUE, TRUE)

Help(upd) ==
    /\ Routed(upd, "help_command")
    /\ Deliver(upd, "help_command",
               help_command(upd, allowed_group_id, user_data[upd.user], rows),
               TRUE, TRUE)

\* an update no handler takes is dropped
Unhandled(upd) ==
    /\ Routed(upd, "none")
    /\ Deliver(upd, "none",
               Returned(Absent, user_data[upd.user], rows, <<>>, <<>>),
               TRUE, TRUE)

Next ==
    \E upd \in Updates :
        \/ Start(upd)
        \/ SelectFamily(upd)
        \/ SelectCategory(upd)
        \/ GetAmount(upd)
        \/ GetPeriod(upd)
        \/ \E storage_ok \in BOOLEAN, notify_ok \in BOOLEAN :
               GetContact(upd, storage_ok, notify_ok)
        \/ Cancel(upd)
        \/ Help(upd)
        \/ Unhandled(upd)

Spec == Init /\ [][Next]_vars

-----------------------------------------------------------------------------
(* SpecInput: one conversation of user 2 in chat -5, taken from the AMOUNT *)
(* step on (the state select_category leaves, for every family and         *)
(* category), with the wide sets of texts.                                 *)

InitInput ==
    \E f \in Range(FAMILIES), g \in Range(CATEGORIES) :
        LET upd == Button(2, -5, "category_", g)
            ud == [EmptyDraft EXCEPT !.family = Some(f)]
            r == select_category(upd, ud, <<>>)
        IN  /\ allowed_group_id = Absent
            /\ conversations = [k \in Keys |-> IF k = Key(upd) THEN AMOUNT ELSE END]
            /\ user_data = [u \in Users |-> IF u = 2 THEN r.data ELSE EmptyDraft]
            /\ rows = <<>>
            /\ accepted = [k \in Keys |-> IF k = Key(upd) THEN r.data ELSE EmptyDraft]
            /\ last = [kind |-> upd.kind, user |-> upd.user, chat |-> upd.chat,
                       data |-> upd.data, handler |-> "select_category",
                       from |-> CATEGORY,
                       storage_ok |-> TRUE, notify_ok |-> TRUE,
                       replies |-> r.replies,
                       notified |-> r.notified, raised |-> r.raised,
                       effects |-> r.effects]

NextInput ==
    \/ \E t \in AmountTexts : GetAmount(Text(2, -5, t))
    \/ \E t \in PeriodTexts : GetPeriod(Text(2, -5, t))
    \/ \E t \in ContactTexts, storage_ok \in BOOLEAN, notify_ok \in BOOLEAN :
           GetContact(Text(2, -5, t), storage_ok, notify_ok)

SpecInput == InitInput /\ [][NextInput]_vars

-----------------------------------------------------------------------------
(* SpecAuth: the authorization guard under every setting of the allowed    *)
(* chat, with user 1 sending commands and pressing a family button in both *)
(* chats.                                                                  *)

InitAuth == InitWith(Configs)

AuthUpdates ==
    Commands({1}, Chats) \cup Buttons({1}, Chats, {FAMILIES[1]}, {})

NextAuth ==
    \E upd \in AuthUpdates :
        \/ Start(upd)
        \/ SelectFamily(upd)
        \/ Cancel(upd)
        \/ Help(upd)
        \/ Unhandled(upd)

SpecAuth == InitAuth /\ [][NextAuth]_vars

-----------------------------------------------------------------------------
(* What the claims speak of.                                               *)

\* the key, the user and the text of the update a step handles
LastKey == <<last'.chat, last'.user>>

\* the row a step appended, when it appended one
Appended == Len(rows') = Len(rows) + 1 /\ SubSeq(rows', 1, Len(rows)) = rows

NewRow == rows'[Len(rows')]

Committing == last'.handler = "get_contact"

HasReply(replies, msg) == \E i \in 1..Len(replies) : replies[i].msg = msg

-----------------------------------------------------------------------------
(* C1: every commit step inserts exactly one row, whose family, category,  *)
(* amount and period are the values accepted earlier in that conversation, *)
(* whose contact is the normalized text and whose requester is the         *)
(* submitting user; a cancel inserts no row.  (Stated for the commits at   *)
(* which the store accepts the insert, the reading most favourable to the  *)
(* claim; C5 is about the others.)                                         *)
C1_CommitStoresAcceptedDraft ==
    [][ /\ (Committing /\ last'.raised # "sqlite3.Error") =>
               /\ Appended
               /\ NewRow.family = Val(accepted[LastKey].family)
               /\ NewRow.category = Val(accepted[LastKey].category)
               /\ NewRow.amount = Val(accepted[LastKey].amount)
               /\ NewRow.period = Val(accepted[LastKey].period)
               /\ NewRow.contact = NormalizeContact(last'.data)
               /\ NewRow.user_id = last'.user
               /\ NewRow.username = Val(UsernameOf(last'.user))
        /\ last'.handler = "cancel" => rows' = rows ]_vars

-----------------------------------------------------------------------------
(* C2, as claimed: a start command that arrives while the conversation of  *)
(* its (user, chat) pair is open restarts it: the state becomes FAMILY and *)
(* the draft is emptied.                                                   *)
C2_StartRestarts ==
    [][ (last'.kind = "start" /\ conversations[LastKey] \in OpenStates) =>
            /\ conversations'[LastKey] = FAMILY
            /\ user_data'[last'.user] = EmptyDraft ]_vars

(* C2, amended: a start command that arrives while the conversation of its *)
(* (user, chat) pair is open is dropped: no handler runs, nothing is sent, *)
(* and the states of all conversations, the drafts and the table stay as   *)
(* they are.                                                               *)
C2_StartIgnoredWhileOpen ==
    [][ (last'.kind = "start" /\ conversations[LastKey] \in OpenStates) =>
            /\ last'.handler = "none"
            /\ last'.replies = <<>>
            /\ conversations' = conversations
            /\ user_data' = user_data
            /\ rows' = rows ]_vars

\* a start command has arrived at a conversation waiting in AMOUNT with a
\* family and a category in the draft
C2_Witness ==
    /\ last.kind = "start" /\ last.from = AMOUNT
    /\ conversations[<<last.chat, last.user>>] = AMOUNT
    /\ user_data[last.user].family # Absent
    /\ user_data[last.user].category # Absent

-----------------------------------------------------------------------------
(* C3: while two conversations are open, a step, commit or cancel of one   *)
(* leaves the draft of the other as it is.  The draft a conversation reads *)
(* is the user_data of its user.                                           *)
C3_DraftsIsolated ==
    [][ \A k \in Keys :
            ( /\ k # LastKey
              /\ conversations[k] \in OpenStates
              /\ conversations[LastKey] \in OpenStates
              /\ last'.handler \notin {"none", "help_command"} ) =>
                user_data'[k[2]] = user_data[k[2]] ]_vars

-----------------------------------------------------------------------------
(* C4: when the Notifier fails at a commit step whose row was inserted,    *)
(* the row stays in the table, exactly one notification was attempted, the *)
(* submitting user gets the warning naming the contact and then the        *)
(* confirmation, the conversation ends and the draft is empty.             *)
C4_NotifierFailureKeepsRow ==
    [][ (Committing /\ ~last'.notify_ok /\ Len(rows') # Len(rows)) =>
            LET contact == NormalizeContact(last'.data)
            IN  /\ Appended
                /\ NewRow.contact = contact
                /\ NewRow.user_id = last'.user
                /\ last'.notified = <<contact>>
                /\ last'.replies =
                       <<ReplyNaming("notification_failed", contact),
                         ReplyNaming("saved", contact)>>
                /\ last'.raised = "no"
                /\ conversations'[LastKey] = END
                /\ user_data'[last'.user] = EmptyDraft ]_vars

\* a commit whose notification failed has left its row in the table
C4_Witness ==
    /\ last.handler = "get_contact" /\ ~last.notify_ok /\ last.storage_ok
    /\ Len(rows) = 1
    /\ rows[1].contact = NormalizeContact(last.data)
    /\ HasReply(last.replies, "notification_failed")
    /\ HasReply(last.replies, "saved")
    /\ conversations[<<last.chat, last.user>>] = END

-----------------------------------------------------------------------------
(* C5: when the insert fails at a commit step, no row is added, the        *)
(* Notifier is not invoked, no confirmation is sent, and the user gets a   *)
(* message reporting the failure to save.                                  *)
C5_StorageFailureReported ==
    [][ (Committing /\ last'.raised = "sqlite3.Error") =>
            /\ rows' = rows
            /\ last'.notified = <<>>
            /\ ~HasReply(last'.replies, "saved")
            /\ Len(last'.replies) >= 1 ]_vars

-----------------------------------------------------------------------------
(* C6: a cancel command that arrives in any of the states FAMILY,          *)
(* CATEGORY, AMOUNT, PERIOD, CONTACT is taken by the cancel handler: the   *)
(* conversation ends, the draft is emptied, the table is unchanged.        *)
C6_CancelInAnyState ==
    [][ (last'.kind = "cancel" /\ conversations[LastKey] \in OpenStates) =>
            /\ last'.handler = "cancel"
            /\ last'.replies = <<Reply("cancelled")>>
            /\ conversations'[LastKey] = END
            /\ user_data'[last'.user] = EmptyDraft
            /\ rows' = rows ]_vars

\* a conversation was cancelled in CONTACT, with a row already in the table
C6_Witness ==
    /\ last.kind = "cancel" /\ last.from = CONTACT
    /\ conversations[<<last.chat, last.user>>] = END
    /\ rows # <<>>

-----------------------------------------------------------------------------
(* C7: in AMOUNT, a text that is a positive decimal numeral (digits with   *)
(* at most one "." or ",") stores that number and moves to PERIOD; a text  *)
(* that is a zero or negative numeral, or that has no digit at all, leaves *)
(* the state AMOUNT and the draft and the table as they are and gets the   *)
(* retry prompt, without an exception.                                     *)

Unsigned(s) == IF s # <<>> /\ Head(s) \in {"+", "-"} THEN Tail(s) ELSE s

IsDecimalNumeral(s) ==
    LET b == Unsigned(s)
    IN  /\ \E i \in 1..Len(b) : IsDigit(b[i])
        /\ \A i \in 1..Len(b) : IsDigit(b[i]) \/ b[i] \in {".", ","}
        /\ Cardinality({i \in 1..Len(b) : b[i] \in {".", ","}}) <= 1

IsPositiveNumeral(t) ==
    LET s == Strip(t)
    IN  /\ IsDecimalNumeral(s)
        /\ Head(s) # "-"
        /\ \E i \in 1..Len(s) : IsDigit(s[i]) /\ s[i] # "0"

IsNonPositiveNumeral(t) == IsDecimalNumeral(Strip(t)) /\ ~IsPositiveNumeral(t)

IsNonNumeric(t) == \A i \in 1..Len(t) : ~IsDigit(t[i])

\* the number a positive decimal numeral denotes
NumeralValue(t) ==
    LET b == Unsigned(Strip(t))
        sep == FirstIn(b, {".", ","})
    IN  FloatFinite(FALSE, ToNat(DigitsOf(b)),
                    IF sep = 0 THEN 0 ELSE 0 - (Len(b) - sep))

C7_AmountValidation ==
    [][ last'.handler = "get_amount" =>
            /\ IsPositiveNumeral(last'.data) =>
                   /\ conversations'[LastKey] = PERIOD
                   /\ user_data'[last'.user] =
                          [user_data[last'.user] EXCEPT
                               !.amount = Some(NumeralValue(last'.data))]
                   /\ rows' = rows
            /\ (IsNonPositiveNumeral(last'.data) \/ IsNonNumeric(last'.data)) =>
                   /\ conversations'[LastKey] = AMOUNT
                   /\ user_data' = user_data
                   /\ rows' = rows
                   /\ last'.replies = <<Reply("invalid_amount")>>
                   /\ last'.raised = "no" ]_vars

-----------------------------------------------------------------------------
(* C8: in PERIOD, a text (surrounding whitespace aside) is accepted, that  *)
(* is stored as the draft's period with the state moving to CONTACT, if    *)
(* and only if it has the form YYYY-MM-DD and is a real calendar date;     *)
(* every other text leaves state and draft as they are and gets the retry  *)
(* prompt; so every period in a draft or in a row has the form YYYY-MM-DD. *)

IsIsoDate(s) ==
    /\ Len(s) = 10
    /\ s[5] = "-" /\ s[8] = "-"
    /\ \A i \in {1, 2, 3, 4, 6, 7, 9, 10} : IsDigit(s[i])
    /\ LET y == ToNat(SubSeq(s, 1, 4))
           m == ToNat(SubSeq(s, 6, 7))
           d == ToNat(SubSeq(s, 9, 10))
       IN  y >= 1 /\ m \in 1..12 /\ d \in 1..DaysInMonth(y, m)

C8_PeriodValidation ==
    [][ /\ last'.handler = "get_period" =>
               IF IsIsoDate(Strip(last'.data))
               THEN /\ conversations'[LastKey] = CONTACT
                    /\ user_data'[last'.user] =
                           [user_data[last'.user] EXCEPT
                                !.period = Some(Strip(last'.data))]
               ELSE /\ conversations'[LastKey] = PERIOD
                    /\ user_data' = user_data
                    /\ last'.replies = <<Reply("invalid_period")>>
        /\ \A u \in Users :
               user_data'[u].period # Absent => IsIsoDate(Val(user_data'[u].period))
        /\ \A i \in 1..Len(rows') : IsIsoDate(rows'[i].period) ]_vars

-----------------------------------------------------------------------------
(* C9: a chat is let in when no allowed chat is configured, and otherwise  *)
(* exactly when its identifier is the configured one.  A start command of  *)
(* a chat that is let in opens the conversation in FAMILY; from any other  *)
(* chat it gets only the rejection, opens no conversation and leaves the   *)
(* drafts and the table as they are.  A help command gets the usage text   *)
(* from a chat that is let in and only the rejection from any other.       *)

LetIn(chat) ==
    \/ allowed_group_id = Absent
    \/ Val(allowed_group_id) = <<>>
    \/ Val(allowed_group_id) = IntToText(chat)

C9_AuthorizationGuard ==
    [][ /\ (last'.kind = "start" /\ conversations[LastKey] = END) =>
               /\ last'.handler = "start"
               /\ IF LetIn(last'.chat)
                  THEN /\ conversations'[LastKey] = FAMILY
                       /\ last'.replies = <<Reply("select_family")>>
                  ELSE /\ last'.replies = <<Reply("unauthorized")>>
                       /\ conversations' = conversations
                       /\ user_data' = user_data
                       /\ rows' = rows
        /\ last'.kind = "help" =>
               /\ last'.handler = "help_command"
               /\ last'.replies =
                      IF LetIn(last'.chat) THEN <<Reply("help")>>
                      ELSE <<Reply("unauthorized")>>
               /\ conversations' = conversations
               /\ user_data' = user_data
               /\ rows' = rows ]_vars

\* chat -5 is the allowed chat; user 1, whose draft holds a family, has
\* sent start in chat 7 and got the rejection
C9_Witness ==
    /\ allowed_group_id = Some(<<"-", "5">>)
    /\ last.handler = "start" /\ last.chat = 7
    /\ last.replies = <<Reply("unauthorized")>>
    /\ conversations[<<7, last.user>>] = END
    /\ user_data[last.user].family # Absent

-----------------------------------------------------------------------------
(* C10, as claimed: the contact of the row is the text itself when the     *)
(* text begins with "@" and the text with one "@" prepended when it does   *)
(* not; normalizing it again changes nothing; it begins with "@".          *)
C10_PrefixedStoredUnchanged ==
    [][ (Committing /\ Len(rows') # Len(rows)) =>
            /\ StartsWith(last'.data, "@") => NewRow.contact = last'.data
            /\ ~StartsWith(last'.data, "@") =>
                   NewRow.contact = <<"@">> \o last'.data
            /\ NormalizeContact(NewRow.contact) = NewRow.contact
            /\ StartsWith(NewRow.contact, "@") ]_vars

AtCount(s) == Cardinality({i \in 1..Len(s) : s[i] = "@"})

(* C10, amended: with the surrounding whitespace of the text removed       *)
(* first, the contact of the row is the stripped text itself when that     *)
(* begins with "@" and the stripped text with exactly one "@" prepended    *)
(* when it does not; normalizing the stored contact again changes nothing; *)
(* every contact in the table begins with "@".                             *)
C10_ContactNormalized ==
    [][ /\ (Committing /\ Len(rows') # Len(rows)) =>
               LET s == Strip(last'.data)
               IN  /\ StartsWith(s, "@") => NewRow.contact = s
                   /\ ~StartsWith(s, "@") =>
                          /\ NewRow.contact = <<"@">> \o s
                          /\ AtCount(NewRow.contact) = AtCount(last'.data) + 1
        /\ \A i \in 1..Len(rows') :
               /\ NormalizeContact(rows'[i].contact) = rows'[i].contact
               /\ StartsWith(rows'[i].contact, "@") ]_vars

\* the text "@mario " (with a trailing blank) has been committed as "@mario"
C10_Witness ==
    /\ last.handler = "get_contact" /\ last.raised = "no"
    /\ last.data = <<"@", "m", "a", "r", "i", "o", " ">>
    /\ Len(rows) = 1
    /\ rows[1].contact = <<"@", "m", "a", "r", "i", "o">>

-----------------------------------------------------------------------------
(* C11: every row of the table has family, category, amount, period,       *)
(* contact and requester id populated, whatever events came before (cancel *)
(* commands, retries, conversations of the same user in two chats); a      *)
(* commit step that finds a field missing in the draft inserts nothing.    *)

Populated(row) ==
    /\ row.family \in Range(FAMILIES)
    /\ row.category \in Range(CATEGORIES)
    /\ row.amount.kind \in {"finite", "inf"}
    /\ row.period # <<>>
    /\ row.contact # <<>>
    /\ row.user_id \in Users

MissingField(ud) == \E f \in DOMAIN ud : ud[f] = Absent

C11_RowsFullyPopulated ==
    [][ /\ \A i \in 1..Len(rows') : Populated(rows'[i])
        /\ (Committing /\ MissingField(user_data[last'.user])) =>
               /\ rows' = rows
               /\ last'.raised = "KeyError" ]_vars

\* a commit was attempted from a draft that holds a family but no period,
\* and the table holds no row
C11_Witness ==
    /\ last.handler = "get_contact" /\ last.raised = "KeyError"
    /\ user_data[last.user].family # Absent
    /\ user_data[last.user].period = Absent
    /\ rows = <<>>

-----------------------------------------------------------------------------
(* C12: for every family f and every category c, a conversation that has   *)
(* selected f in FAMILY and then selects c in CATEGORY is in AMOUNT, and   *)
(* the draft it reads holds family = f, category = c and no other field.   *)
C12_SelectionsFillDraft ==
    [][ last'.handler = "select_category" =>
            /\ conversations'[LastKey] = AMOUNT
            /\ user_data'[last'.user] =
                   [EmptyDraft EXCEPT !.family = accepted[LastKey].family,
                                      !.category = Some(last'.data[2])] ]_vars

-----------------------------------------------------------------------------
(* C13: every amount held in a draft or in a row of the table is a         *)
(* strictly positive number, whatever text the AMOUNT step accepted.       *)
(* (An infinite amount is counted as positive here, the reading most       *)
(* favourable to the claim.)                                               *)

PositiveAmount(v) ==
    /\ v.kind \in {"finite", "inf"}
    /\ ~v.neg
    /\ v.kind = "finite" => v.m > 0

C13_AmountsPositive ==
    /\ \A u \in Users :
           user_data[u].amount # Absent => PositiveAmount(Val(user_data[u].amount))
    /\ \A i \in 1..Len(rows) : PositiveAmount(rows[i].amount)

-----------------------------------------------------------------------------
(* C14: one event changes the state of at most the conversation it is      *)
(* addressed to, and takes it from a state s of FAMILY, CATEGORY, AMOUNT,  *)
(* PERIOD, CONTACT to s itself, to the state right after s, or to the end; *)
(* a closed conversation stays closed or opens in FAMILY.  No step is      *)
(* skipped and none is taken backwards.  The table changes only by one row *)
(* appended in a step from CONTACT to the end.                             *)

StepsFrom(s) ==
    IF s = END THEN {END, FAMILY}
    ELSE IF s = CONTACT THEN {CONTACT, END}
    ELSE {s, s + 1, END}

C14_FixedOrder ==
    [][ /\ \A k \in Keys :
               /\ conversations'[k] \in StepsFrom(conversations[k])
               /\ k # LastKey => conversations'[k] = conversations[k]
        /\ rows' # rows =>
               /\ Appended
               /\ conversations[LastKey] = CONTACT
               /\ conversations'[LastKey] = END ]_vars

\* a conversation has gone from CONTACT to the end and its row is in the
\* table, while the user's conversation in the other chat is not in CONTACT
C14_Witness ==
    /\ last.handler = "get_contact" /\ last.from = CONTACT
    /\ conversations[<<last.chat, last.user>>] = END
    /\ Len(rows) = 1
    /\ \E c \in Chats : conversations[<<c, last.user>>] \in {FAMILY, CATEGORY}

-----------------------------------------------------------------------------
(* C15: a commit step that completes does, in this order: insert the row,  *)
(* invoke the Notifier once (followed by the warning when it failed, never *)
(* by a second attempt), send the confirmation, clear the draft; it then   *)
(* ends the conversation.  A commit step whose insert did not happen has   *)
(* not invoked the Notifier and has sent nothing.                          *)
C15_CommitOrder ==
    [][ Committing =>
            LET contact == NormalizeContact(last'.data)
            IN  IF last'.raised = "no"
                THEN /\ Appended
                     /\ last'.effects =
                            <<"insert", "notify">>
                            \o (IF last'.notify_ok THEN <<>> ELSE <<"reply">>)
                            \o <<"reply", "clear">>
                     /\ last'.notified = <<contact>>
                     /\ last'.replies[Len(last'.replies)] =
                            ReplyNaming("saved", contact)
                     /\ conversations'[LastKey] = END
                     /\ user_data'[last'.user] = EmptyDraft
                ELSE /\ rows' = rows
                     /\ last'.notified = <<>>
                     /\ last'.effects = <<>> ]_vars

\* a commit has inserted, then notified, then confirmed, then cleared
C15_Witness ==
    /\ last.handler = "get_contact" /\ last.notify_ok
    /\ last.effects = <<"insert", "notify", "reply", "clear">>
    /\ last.notified = <<rows[Len(rows)].contact>>
    /\ user_data[last.user] = EmptyDraft

-----------------------------------------------------------------------------
(* C16: whenever a user has no open conversation (none was started, or     *)
(* each one was committed or cancelled), the draft of that user is empty.  *)

NoOpenConversation(u) == \A c \in Chats : conversations[<<c, u>>] = END

C16_ClosedMeansEmptyDraft ==
    \A u \in Users : NoOpenConversation(u) => user_data[u] = EmptyDraft

\* user 1 has committed a conversation, has no conversation open, and the
\* draft is empty
C16_Witness ==
    /\ last.handler = "get_contact" /\ last.raised = "no"
    /\ Len(rows) = 1
    /\ NoOpenConversation(last.user)
    /\ user_data[last.user] = EmptyDraft

-----------------------------------------------------------------------------
(* C17: the draft a conversation reads holds every field collected by the  *)
(* states before its current one (family in CATEGORY; family and category  *)
(* in AMOUNT; family, category and amount in PERIOD; all four in CONTACT), *)
(* and no handler has failed on a missing field of the draft.              *)
C17_DraftHoldsEarlierFields ==
    /\ \A k \in Keys :
           LET ud == user_data[k[2]]
               s == conversations[k]
           IN  /\ s \in {CATEGORY, AMOUNT, PERIOD, CONTACT} => ud.family # Absent
               /\ s \in {AMOUNT, PERIOD, CONTACT} => ud.category # Absent
               /\ s \in {PERIOD, CONTACT} => ud.amount # Absent
               /\ s = CONTACT => ud.period # Absent
    /\ last.raised # "KeyError"

-----------------------------------------------------------------------------
(* C18: an event that does not fit the state of the conversation it is     *)
(* addressed to changes nothing: a text, a button press or a cancel        *)
(* command while no conversation is open, a button press in AMOUNT, PERIOD *)
(* or CONTACT, a family button in CATEGORY, a category button in FAMILY, a *)
(* text in FAMILY or CATEGORY.  No handler runs, nothing is sent, and the  *)
(* states, the drafts and the table stay as they are.                      *)

Misfit(state, kind, data) ==
    \/ state = END /\ kind \in {"text", "button", "cancel"}
    \/ state \in {AMOUNT, PERIOD, CONTACT} /\ kind = "button"
    \/ state = CATEGORY /\ kind = "button" /\ data[1] = "family_"
    \/ state = FAMILY /\ kind = "button" /\ data[1] = "category_"
    \/ state \in {FAMILY, CATEGORY} /\ kind = "text"

C18_MisfitChangesNothing ==
    [][ Misfit(conversations[LastKey], last'.kind, last'.data) =>
            /\ last'.handler = "none"
            /\ last'.replies = <<>>
            /\ conversations' = conversations
            /\ user_data' = user_data
            /\ rows' = rows ]_vars

\* a family button was pressed in a conversation waiting in CATEGORY with
\* a family in the draft, and the conversation still waits in CATEGORY
C18_Witness ==
    /\ last.kind = "button" /\ last.from = CATEGORY
    /\ last.data[1] = "family_"
    /\ last.handler = "none"
    /\ conversations[<<last.chat, last.user>>] = CATEGORY
    /\ user_data[last.user].family # Absent

-----------------------------------------------------------------------------
(* C19: when an allowed chat is configured, conversations are open only in *)
(* that chat, and every row of the table is appended by a commit step that *)
(* took place in that chat, although only start asks the guard.            *)
C19_RowsFromAllowedChat ==
    [][ (allowed_group_id # Absent /\ Val(allowed_group_id) # <<>>) =>
            /\ rows' # rows =>
                   /\ Committing
                   /\ IntToText(last'.chat) = Val(allowed_group_id)
            /\ \A k \in Keys :
                   conversations'[k] \in OpenStates =>
                       IntToText(k[1]) = Val(allowed_group_id) ]_vars

\* chat -5 is the allowed chat and a conversation in it has committed the
\* row of the table
C19_Witness ==
    /\ allowed_group_id = Some(<<"-", "5">>)
    /\ last.handler = "get_contact" /\ last.chat = -5
    /\ last.effects # <<>>
    /\ Len(rows) = 1

====
